---- MODULE Spec2Model ----
(***************************************************************************)
(* Model of TrustStorage (src/bot/safefolks_bot.py): the in-memory ledger  *)
(* self.data, the backing JSON file, and the store's operations.           *)
(*                                                                         *)
(* A Python dict is modelled as an association list in insertion order     *)
(* (a sequence of [key, value] members with distinct keys); dict equality  *)
(* ignores the order.  A str is a sequence of one-character strings.       *)
(* datetime.now().isoformat() is modelled by the reading of a logical      *)
(* clock that advances at every call of datetime.now().                    *)
(***************************************************************************)
EXTENDS Integers, Sequences, FiniteSets, TLC

VARIABLES
    data,      \* TrustStorage.data: the in-memory ledger
    file,      \* the backing file at TrustStorage.data_file
    clock,     \* number of datetime.now() calls made so far
    started,   \* a TrustStorage instance has been constructed
    unsaved,   \* history: memory holds a mutation whose save failed, and no save succeeded since
    last       \* history: the last call, its arguments and its outcome, and the clock
               \* reading at which the store in use was constructed

vars == <<data, file, clock, started, unsaved, last>>

----------------------------------------------------------------------------
(* Bounds and input sets *)

MaxClock == 3

GroupIds == {-1, 1}
UserIds == {1, 2}
\* <<group_name, owner_name>> of an add_group call
GroupNamings == {<<"G", "A">>, <<"H", "B">>}
\* <<truster_name, trustee_name>> of an add_trust call
TrustNamings == {<<"A", "B">>, <<"C", "D">>}

----------------------------------------------------------------------------
(* str(int) *)

Digit(d) == CASE d = 0 -> "0" [] d = 1 -> "1" [] d = 2 -> "2" [] d = 3 -> "3"
              [] d = 4 -> "4" [] d = 5 -> "5" [] d = 6 -> "6" [] d = 7 -> "7"
              [] d = 8 -> "8" [] d = 9 -> "9"

RECURSIVE DigitsOf(_)
DigitsOf(n) == IF n < 10 THEN <<Digit(n)>> ELSE Append(DigitsOf(n \div 10), Digit(n % 10))

\* str(group_id): decimal digits, with a leading "-" for a negative id
IntToStr(n) == IF n < 0 THEN <<"-">> \o DigitsOf(0 - n) ELSE DigitsOf(n)

----------------------------------------------------------------------------
(* Python dict keys and dicts *)

\* a dict key is a str or an int; "1" and 1 are different keys
StrKey(s) == [isStr |-> TRUE, s |-> s, n |-> 0]
IntKey(n) == [isStr |-> FALSE, s |-> <<>>, n |-> n]

DictKeys(d) == {d[i].key : i \in DOMAIN d}
DictHas(d, k) == k \in DictKeys(d)
DictGet(d, k) == d[CHOOSE i \in DOMAIN d : d[i].key = k].value

\* d.setdefault(k, v) in the place of d[k] = v: the first value of a key is kept
DictSetDefault(d, k, v) ==
    IF k \in {d[i].key : i \in DOMAIN d} THEN d ELSE Append(d, [key |-> k, value |-> v])

\* d[k] = v: an existing key keeps its position, a new key goes last
DictSet(d, k, v) ==
    IF DictHas(d, k)
    THEN [i \in DOMAIN d |-> IF d[i].key = k THEN [key |-> k, value |-> v] ELSE d[i]]
    ELSE Append(d, [key |-> k, value |-> v])

\* d1 == d2 for dicts: same keys, same values, order ignored
DictEq(d1, d2) ==
    /\ DictKeys(d1) = DictKeys(d2)
    /\ \A k \in DictKeys(d1) : DictGet(d1, k) = DictGet(d2, k)

----------------------------------------------------------------------------
(* Ledger values.  json.load may return a document that is not of the      *)
(* ledger shape: kind "dict" with either key missing, or kind "other"      *)
(* (a list, a number, null), which supports no string subscript.           *)

MakeData(kind, hasGroups, hasTrusts, groups, trusts) ==
    [kind |-> kind, hasGroups |-> hasGroups, hasTrusts |-> hasTrusts,
     groups |-> groups, trusts |-> trusts]

\* {"groups": {}, "trusts": []}
EmptyLedger == MakeData("dict", TRUE, TRUE, <<>>, <<>>)

\* data1 == data2 as Python compares the two loaded objects
LedgerEq(a, b) ==
    /\ a.kind = b.kind
    /\ a.hasGroups = b.hasGroups
    /\ a.hasTrusts = b.hasTrusts
    /\ DictEq(a.groups, b.groups)
    /\ a.trusts = b.trusts

----------------------------------------------------------------------------
(* json.dump / json.load *)

\* json.dump writes a dict key as a JSON string: an int key is coerced to its decimal text
JsonKey(k) == IF k.isStr THEN k.s ELSE IntToStr(k.n)

\* the JSON document json.dump(self.data, f, indent=2) writes
JsonDump(d) ==
    [kind |-> d.kind, hasGroups |-> d.hasGroups, hasTrusts |-> d.hasTrusts,
     groups |-> [i \in DOMAIN d.groups |->
                    [name |-> JsonKey(d.groups[i].key), value |-> d.groups[i].value]],
     trusts |-> d.trusts]

RECURSIVE LoadMembers(_, _)
LoadMembers(members, acc) ==
    IF members = <<>> THEN acc
    ELSE LoadMembers(Tail(members),
                     DictSet(acc, StrKey(Head(members).name), Head(members).value))

\* the object json.load(f) builds: every object member name becomes a str key,
\* a repeated member name keeps the last value
JsonLoad(doc) ==
    MakeData(doc.kind, doc.hasGroups, doc.hasTrusts,
             LoadMembers(doc.groups, <<>>), doc.trusts)

----------------------------------------------------------------------------
(* The backing file *)

NoDoc == JsonDump(EmptyLedger)

FileAbsent == [state |-> "absent", doc |-> NoDoc]
\* a file whose content is not JSON
FileCorrupt == [state |-> "corrupt", doc |-> NoDoc]
\* a file truncated by open(..., 'w') and not, or not completely, rewritten
FilePartial == [state |-> "partial", doc |-> NoDoc]
FileJson(doc) == [state |-> "json", doc |-> doc]

\* _load_data returning {} where no ledger can be read
LoadDataBareDict(f) ==
    IF f.state = "json" THEN JsonLoad(f.doc) ELSE MakeData("dict", FALSE, FALSE, <<>>, <<>>)

\* _load_data keeping the groups of the file and starting trusts afresh
LoadDataGroupsOnly(f) ==
    IF f.state = "json" THEN [JsonLoad(f.doc) EXCEPT !.trusts = <<>>] ELSE EmptyLedger

\* TrustStorage._load_data
LoadData(f) ==
    IF f.state # "absent"
    THEN IF f.state = "json" THEN JsonLoad(f.doc) ELSE EmptyLedger
    ELSE EmptyLedger

IoOutcomes == {"ok", "open_error", "write_error"}

\* _save_data opening the file with mode 'a': the document is written after the
\* content the file already has, and the whole is no JSON document
SaveDataAppendMode(d, f, io) ==
    CASE io = "ok" -> IF f.state = "absent" THEN FileJson(JsonDump(d)) ELSE FileCorrupt
      [] io = "open_error" -> f
      [] io = "write_error" -> IF f.state = "absent" THEN FilePartial ELSE FileCorrupt

\* TrustStorage._save_data: the file after the call; an exception of open() or
\* of json.dump is caught and logged
SaveData(d, f, io) ==
    CASE io = "ok" -> FileJson(JsonDump(d))
      [] io = "open_error" -> f
      [] io = "write_error" -> FilePartial

----------------------------------------------------------------------------
(* History of the last call *)

NoCall ==
    [op |-> "none", group_id |-> 0, group_name |-> "", owner_id |-> 0, owner_name |-> "",
     truster_id |-> 0, truster_name |-> "", trustee_id |-> 0, trustee_name |-> "",
     user_id |-> 0, now |-> 0, io |-> "none", exc |-> "none", behind |-> FALSE,
     found |-> "none", result |-> <<>>, opened_at |-> 0, reply |-> "none"]

\* the exception self.data[name] raises, "none" when it raises none
Subscript(d, has) ==
    IF d.kind # "dict" THEN "TypeError"
    ELSE IF ~has THEN "KeyError"
    ELSE "none"

----------------------------------------------------------------------------
(* Operations of TrustStorage *)

\* __init__ writing the ledger it has loaded back to the file
OpenWritesBack ==
    /\ data' = LoadData(file)
    /\ file' = SaveData(data', file, "ok")
    /\ started' = TRUE
    /\ unsaved' = FALSE
    /\ last' = [NoCall EXCEPT !.op = "open", !.found = file.state, !.opened_at = clock]
    /\ UNCHANGED clock

\* TrustStorage.__init__
Open ==
    /\ data' = LoadData(file)
    /\ started' = TRUE
    /\ unsaved' = FALSE
    /\ last' = [NoCall EXCEPT !.op = "open", !.found = file.state, !.opened_at = clock]
    /\ UNCHANGED <<file, clock>>

\* the group id itself as the key, without str()
GroupKeyInt(group_id) == IntKey(group_id)

\* group_id_str = str(group_id)
GroupKey(group_id) == StrKey(IntToStr(group_id))

GroupRecord(group_name, owner_id, owner_name, now) ==
    [name |-> group_name, owner_id |-> owner_id, owner_name |-> owner_name, added_at |-> now]

\* TrustStorage.add_group
AddGroup(group_id, group_name, owner_id, owner_name, io) ==
    /\ started
    /\ clock < MaxClock
    /\ clock' = clock + 1
    /\ LET group_id_str == GroupKey(group_id)
           exc == Subscript(data, data.hasGroups)
           call == [NoCall EXCEPT !.op = "add_group", !.opened_at = last.opened_at,
                       !.group_id = group_id,
                       !.group_name = group_name, !.owner_id = owner_id,
                       !.owner_name = owner_name, !.now = clock, !.exc = exc,
                       !.behind = unsaved, !.found = file.state]
       IN IF exc # "none"
          THEN /\ last' = call
               /\ UNCHANGED <<data, file, started, unsaved>>
          ELSE /\ data' = [data EXCEPT !.groups =
                              DictSet(@, group_id_str,
                                      GroupRecord(group_name, owner_id, owner_name, clock))]
               /\ file' = SaveData(data', file, io)
               /\ unsaved' = (io # "ok")
               /\ last' = [call EXCEPT !.io = io]
               /\ UNCHANGED started

TrustRecord(group_id, truster_id, truster_name, trustee_id, trustee_name, now) ==
    [group_id |-> group_id, truster_id |-> truster_id, truster_name |-> truster_name,
     trustee_id |-> trustee_id, trustee_name |-> trustee_name, created_at |-> now]

\* the loop of add_trust with truster_id compared to the trustee_id of the record
TrustExistsSwapped(trusts, group_id, truster_id, trustee_id) ==
    \E i \in DOMAIN trusts :
        /\ trusts[i].group_id = group_id
        /\ trusts[i].truster_id = truster_id
        /\ trusts[i].trustee_id = truster_id

\* the loop of add_trust: some recorded trust has the three key fields of the call
TrustExists(trusts, group_id, truster_id, trustee_id) ==
    \E i \in DOMAIN trusts :
        /\ trusts[i].group_id = group_id
        /\ trusts[i].truster_id = truster_id
        /\ trusts[i].trustee_id = trustee_id

\* add_trust that refreshes the record of a key it finds, in the place of returning
AddTrustUpsert(group_id, truster_id, truster_name, trustee_id, trustee_name, io) ==
    /\ started
    /\ clock < MaxClock
    /\ clock' = clock + 1
    /\ LET trust_record == TrustRecord(group_id, truster_id, truster_name,
                                       trustee_id, trustee_name, clock)
           exc == Subscript(data, data.hasTrusts)
           call == [NoCall EXCEPT !.op = "add_trust", !.opened_at = last.opened_at,
                       !.group_id = group_id,
                       !.truster_id = truster_id, !.truster_name = truster_name,
                       !.trustee_id = trustee_id, !.trustee_name = trustee_name,
                       !.now = clock, !.exc = exc, !.behind = unsaved, !.found = file.state]
       IN IF exc # "none"
          THEN /\ last' = call
               /\ UNCHANGED <<data, file, started, unsaved>>
          ELSE /\ data' = [data EXCEPT !.trusts =
                              IF TrustExists(@, group_id, truster_id, trustee_id)
                              THEN [i \in DOMAIN @ |->
                                       IF /\ @[i].group_id = group_id
                                          /\ @[i].truster_id = truster_id
                                          /\ @[i].trustee_id = trustee_id
                                       THEN trust_record ELSE @[i]]
                              ELSE Append(@, trust_record)]
               /\ file' = SaveData(data', file, io)
               /\ unsaved' = (io # "ok")
               /\ last' = [call EXCEPT !.io = io]
               /\ UNCHANGED started

\* add_trust without the call of _save_data after the append
AddTrustNoSave(group_id, truster_id, truster_name, trustee_id, trustee_name, io) ==
    /\ started
    /\ clock < MaxClock
    /\ clock' = clock + 1
    /\ LET trust_record == TrustRecord(group_id, truster_id, truster_name,
                                       trustee_id, trustee_name, clock)
           exc == Subscript(data, data.hasTrusts)
           call == [NoCall EXCEPT !.op = "add_trust", !.opened_at = last.opened_at,
                       !.group_id = group_id,
                       !.truster_id = truster_id, !.truster_name = truster_name,
                       !.trustee_id = trustee_id, !.trustee_name = trustee_name,
                       !.now = clock, !.exc = exc, !.behind = unsaved, !.found = file.state]
       IN IF exc # "none"
          THEN /\ last' = call
               /\ UNCHANGED <<data, file, started, unsaved>>
          ELSE IF TrustExists(data.trusts, group_id, truster_id, trustee_id)
          THEN /\ last' = call
               /\ UNCHANGED <<data, file, started, unsaved>>
          ELSE /\ data' = [data EXCEPT !.trusts = Append(@, trust_record)]
               /\ last' = call
               /\ UNCHANGED <<file, started, unsaved>>

\* add_trust inserting the new record at the head of trusts
AddTrustPrepend(group_id, truster_id, truster_name, trustee_id, trustee_name, io) ==
    /\ started
    /\ clock < MaxClock
    /\ clock' = clock + 1
    /\ LET trust_record == TrustRecord(group_id, truster_id, truster_name,
                                       trustee_id, trustee_name, clock)
           exc == Subscript(data, data.hasTrusts)
           call == [NoCall EXCEPT !.op = "add_trust", !.opened_at = last.opened_at,
                       !.group_id = group_id,
                       !.truster_id = truster_id, !.truster_name = truster_name,
                       !.trustee_id = trustee_id, !.trustee_name = trustee_name,
                       !.now = clock, !.exc = exc, !.behind = unsaved, !.found = file.state]
       IN IF exc # "none"
          THEN /\ last' = call
               /\ UNCHANGED <<data, file, started, unsaved>>
          ELSE IF TrustExists(data.trusts, group_id, truster_id, trustee_id)
          THEN /\ last' = call
               /\ UNCHANGED <<data, file, started, unsaved>>
          ELSE /\ data' = [data EXCEPT !.trusts = <<trust_record>> \o @]
               /\ file' = SaveData(data', file, io)
               /\ unsaved' = (io # "ok")
               /\ last' = [call EXCEPT !.io = io]
               /\ UNCHANGED started

\* add_trust calling _save_data on the duplicate path too
AddTrustSaveAlways(group_id, truster_id, truster_name, trustee_id, trustee_name, io) ==
    /\ started
    /\ clock < MaxClock
    /\ clock' = clock + 1
    /\ LET trust_record == TrustRecord(group_id, truster_id, truster_name,
                                       trustee_id, trustee_name, clock)
           exc == Subscript(data, data.hasTrusts)
           call == [NoCall EXCEPT !.op = "add_trust", !.opened_at = last.opened_at,
                       !.group_id = group_id,
                       !.truster_id = truster_id, !.truster_name = truster_name,
                       !.trustee_id = trustee_id, !.trustee_name = trustee_name,
                       !.now = clock, !.exc = exc, !.behind = unsaved, !.found = file.state]
       IN IF exc # "none"
          THEN /\ last' = call
               /\ UNCHANGED <<data, file, started, unsaved>>
          ELSE IF TrustExists(data.trusts, group_id, truster_id, trustee_id)
          THEN /\ file' = SaveData(data, file, io)
               /\ unsaved' = (io # "ok")
               /\ last' = [call EXCEPT !.io = io]
               /\ UNCHANGED <<data, started>>
          ELSE /\ data' = [data EXCEPT !.trusts = Append(@, trust_record)]
               /\ file' = SaveData(data', file, io)
               /\ unsaved' = (io # "ok")
               /\ last' = [call EXCEPT !.io = io]
               /\ UNCHANGED started

\* TrustStorage.add_trust
AddTrust(group_id, truster_id, truster_name, trustee_id, trustee_name, io) ==
    /\ started
    /\ clock < MaxClock
    /\ clock' = clock + 1
    /\ LET trust_record == TrustRecord(group_id, truster_id, truster_name,
                                       trustee_id, trustee_name, clock)
           exc == Subscript(data, data.hasTrusts)
           call == [NoCall EXCEPT !.op = "add_trust", !.opened_at = last.opened_at,
                       !.group_id = group_id,
                       !.truster_id = truster_id, !.truster_name = truster_name,
                       !.trustee_id = trustee_id, !.trustee_name = trustee_name,
                       !.now = clock, !.exc = exc, !.behind = unsaved, !.found = file.state]
       IN IF exc # "none"
          THEN /\ last' = call
               /\ UNCHANGED <<data, file, started, unsaved>>
          ELSE IF TrustExists(data.trusts, group_id, truster_id, trustee_id)
          THEN /\ last' = call
               /\ UNCHANGED <<data, file, started, unsaved>>
          ELSE /\ data' = [data EXCEPT !.trusts = Append(@, trust_record)]
               /\ file' = SaveData(data', file, io)
               /\ unsaved' = (io # "ok")
               /\ last' = [call EXCEPT !.io = io]
               /\ UNCHANGED started

RECURSIVE ComprehensionReversed(_, _, _)
\* the comprehension with each match put in front of the result
ComprehensionReversed(trusts, field, value) ==
    IF trusts = <<>> THEN <<>>
    ELSE IF Head(trusts)[field] = value
         THEN ComprehensionReversed(Tail(trusts), field, value) \o <<Head(trusts)>>
         ELSE ComprehensionReversed(Tail(trusts), field, value)

RECURSIVE ComprehensionEitherParty(_, _, _)
\* the comprehension matching a user on either side of the trust
ComprehensionEitherParty(trusts, field, value) ==
    IF trusts = <<>> THEN <<>>
    ELSE IF \/ Head(trusts)[field] = value
            \/ field = "truster_id" /\ Head(trusts).trustee_id = value
         THEN <<Head(trusts)>> \o ComprehensionEitherParty(Tail(trusts), field, value)
         ELSE ComprehensionEitherParty(Tail(trusts), field, value)

RECURSIVE Comprehension(_, _, _)
\* [t for t in trusts if t[field] == value]
Comprehension(trusts, field, value) ==
    IF trusts = <<>> THEN <<>>
    ELSE IF Head(trusts)[field] = value
         THEN <<Head(trusts)>> \o Comprehension(Tail(trusts), field, value)
         ELSE Comprehension(Tail(trusts), field, value)

\* get_group_trusts calling _save_data before it returns
GetGroupTrustsSaving(group_id) ==
    /\ started
    /\ LET exc == Subscript(data, data.hasTrusts)
       IN last' = [NoCall EXCEPT !.op = "get_group_trusts", !.opened_at = last.opened_at,
                      !.group_id = group_id,
                      !.exc = exc,
                      !.result = IF exc = "none"
                                 THEN Comprehension(data.trusts, "group_id", group_id)
                                 ELSE <<>>]
    /\ file' = SaveData(data, file, "ok")
    /\ UNCHANGED <<data, clock, started, unsaved>>

\* TrustStorage.get_group_trusts
GetGroupTrusts(group_id) ==
    /\ started
    /\ LET exc == Subscript(data, data.hasTrusts)
       IN last' = [NoCall EXCEPT !.op = "get_group_trusts", !.opened_at = last.opened_at,
                       !.group_id = group_id,
                      !.exc = exc,
                      !.result = IF exc = "none"
                                 THEN Comprehension(data.trusts, "group_id", group_id)
                                 ELSE <<>>]
    /\ UNCHANGED <<data, file, clock, started, unsaved>>

\* TrustStorage.get_user_trusts
GetUserTrusts(user_id) ==
    /\ started
    /\ LET exc == Subscript(data, data.hasTrusts)
       IN last' = [NoCall EXCEPT !.op = "get_user_trusts", !.opened_at = last.opened_at,
                      !.user_id = user_id,
                      !.exc = exc,
                      !.result = IF exc = "none"
                                 THEN Comprehension(data.trusts, "truster_id", user_id)
                                 ELSE <<>>]
    /\ UNCHANGED <<data, file, clock, started, unsaved>>

----------------------------------------------------------------------------
(* Spec: one store constructed where no file exists; every save succeeds.  *)
(* _save_data never touches self.data, so the in-memory ledger this        *)
(* specification reaches is the one reached under any outcome of the saves.*)

Init ==
    /\ file = FileAbsent
    /\ data = LoadData(FileAbsent)
    /\ clock = 0
    /\ started = TRUE
    /\ unsaved = FALSE
    /\ last = [NoCall EXCEPT !.op = "open", !.found = "absent"]

CallAddGroup ==
    \E g \in GroupIds, nm \in GroupNamings, o \in UserIds :
        AddGroup(g, nm[1], o, nm[2], "ok")

CallAddTrust ==
    \E g \in GroupIds, a \in UserIds, b \in UserIds, nm \in TrustNamings :
        AddTrust(g, a, nm[1], b, nm[2], "ok")

CallGetGroupTrusts == \E g \in GroupIds : GetGroupTrusts(g)

CallGetUserTrusts == \E u \in UserIds : GetUserTrusts(u)

Next ==
    \/ CallAddGroup
    \/ CallAddTrust
    \/ CallGetGroupTrusts
    \/ CallGetUserTrusts

Spec == Init /\ [][Next]_vars

----------------------------------------------------------------------------
(* SpecFile: the life of the backing file.  The process starts on a file   *)
(* in any state, a store is constructed on it (again at any time: a        *)
(* restart, or a second instance on the same path), and each save succeeds *)
(* or fails.                                                               *)

\* {}
DocNoKeys == JsonDump(MakeData("dict", FALSE, FALSE, <<>>, <<>>))
\* {"groups": {}}
DocNoTrusts == JsonDump(MakeData("dict", TRUE, FALSE, <<>>, <<>>))
\* {"trusts": []}
DocNoGroups == JsonDump(MakeData("dict", FALSE, TRUE, <<>>, <<>>))
\* [] (or any JSON value that is not an object)
DocNotObject == JsonDump(MakeData("other", FALSE, FALSE, <<>>, <<>>))

InitialFiles ==
    {FileAbsent, FileCorrupt, FileJson(JsonDump(EmptyLedger)),
     FileJson(DocNoKeys), FileJson(DocNoTrusts), FileJson(DocNoGroups),
     FileJson(DocNotObject)}

InitFile ==
    /\ file \in InitialFiles
    /\ data = EmptyLedger
    /\ clock = 0
    /\ started = FALSE
    /\ unsaved = FALSE
    /\ last = NoCall

FileAddGroup ==
    \E g \in GroupIds, io \in IoOutcomes : AddGroup(g, "G", 1, "A", io)

FileAddTrust ==
    \E g \in GroupIds, b \in UserIds, io \in IoOutcomes : AddTrust(g, 1, "A", b, "B", io)

NextFile ==
    \/ Open
    \/ FileAddGroup
    \/ FileAddTrust
    \/ CallGetGroupTrusts
    \/ CallGetUserTrusts

SpecFile == InitFile /\ [][NextFile]_vars

----------------------------------------------------------------------------
(* Properties of the in-memory ledger, checked under Spec *)

SameKey(e1, e2) ==
    /\ e1.group_id = e2.group_id
    /\ e1.truster_id = e2.truster_id
    /\ e1.trustee_id = e2.trustee_id

\* the edge of trusts, if any, that has the natural key of the last add_trust call
CalledKeyAt(trusts, call) ==
    {i \in DOMAIN trusts :
        /\ trusts[i].group_id = call.group_id
        /\ trusts[i].truster_id = call.truster_id
        /\ trusts[i].trustee_id = call.trustee_id}

\* C1: after any sequence of add_group and add_trust calls on an empty ledger, trusts
\* holds at most one edge for each natural key (group_id, truster_id, trustee_id).
C1_UniqueNaturalKey ==
    \A i, j \in DOMAIN data.trusts :
        SameKey(data.trusts[i], data.trusts[j]) => i = j

\* two edges are recorded and a later add_trust call repeated the key of one of them
C1_Witness ==
    /\ last.op = "add_trust"
    /\ Len(data.trusts) = 2
    /\ \E i \in CalledKeyAt(data.trusts, last) : data.trusts[i].created_at < last.now

\* C2: an add_trust call whose natural key is already in trusts leaves the whole in-memory
\* ledger unchanged, so the stored edge keeps the names and created_at of the first call.
C2_FirstWriteWins ==
    [][(last'.op = "add_trust" /\ clock' # clock /\ CalledKeyAt(data.trusts, last') # {})
          => /\ data' = data
             /\ \A i \in CalledKeyAt(data.trusts, last') :
                    /\ data'.trusts[i].truster_name = data.trusts[i].truster_name
                    /\ data'.trusts[i].trustee_name = data.trusts[i].trustee_name
                    /\ data'.trusts[i].created_at = data.trusts[i].created_at]_vars

\* the last add_trust call repeated a recorded key with other names at a later time
C2_Witness ==
    /\ last.op = "add_trust"
    /\ last.exc = "none"
    /\ \E i \in CalledKeyAt(data.trusts, last) :
           /\ data.trusts[i].truster_name # last.truster_name
           /\ data.trusts[i].trustee_name # last.trustee_name
           /\ data.trusts[i].created_at # last.now

\* the decimal string of each group id of the model
DecimalKey(g) ==
    CASE g = -1 -> [isStr |-> TRUE, s |-> <<"-", "1">>, n |-> 0]
      [] g = 1 -> [isStr |-> TRUE, s |-> <<"1">>, n |-> 0]

KeysOf(groups) == {groups[i].key : i \in DOMAIN groups}
ValueAt(groups, k) == groups[CHOOSE i \in DOMAIN groups : groups[i].key = k].value

\* C3: groups holds exactly one record per group id ever registered, under the decimal
\* string of the id, and the record is the one of the most recent add_group call for it:
\* each add_group call sets the record of its id to its own arguments and time and leaves
\* every other record alone, and no other call changes groups.
C3_LastWriteWins ==
    /\ [](\A i, j \in DOMAIN data.groups :
             data.groups[i].key = data.groups[j].key => i = j)
    /\ [][IF last'.op = "add_group" /\ clock' # clock
          THEN /\ KeysOf(data'.groups) = KeysOf(data.groups) \cup {DecimalKey(last'.group_id)}
               /\ ValueAt(data'.groups, DecimalKey(last'.group_id)) =
                      [name |-> last'.group_name, owner_id |-> last'.owner_id,
                       owner_name |-> last'.owner_name, added_at |-> last'.now]
               /\ \A k \in KeysOf(data.groups) \ {DecimalKey(last'.group_id)} :
                      ValueAt(data'.groups, k) = ValueAt(data.groups, k)
          ELSE data'.groups = data.groups]_vars

\* two groups are registered and the last call re-registered the negative id, first
\* registered before the other one, with another name and owner
C3_Witness ==
    /\ last.op = "add_group"
    /\ last.group_id < 0
    /\ Len(data.groups) = 2
    /\ data.groups[1].key = DecimalKey(last.group_id)
    /\ data.groups[1].value.added_at = last.now
    /\ data.groups[1].value.name = "H"
    /\ data.groups[1].value.owner_id = 2
    /\ last.now = 2

\* res is the subsequence of trusts at the positions pos, in increasing order of position
IsSelection(res, trusts, pos) ==
    /\ Len(res) = Cardinality(pos)
    /\ \A k \in DOMAIN res :
           \E i \in pos : /\ Cardinality({j \in pos : j <= i}) = k
                          /\ res[k] = trusts[i]

\* C6: get_group_trusts(g1) returns exactly the edges of trusts whose group_id is g1,
\* none of another group and none missing, in insertion order.
C6_GroupIsolation ==
    (last.op = "get_group_trusts" /\ last.exc = "none")
        => /\ \A k \in DOMAIN last.result : last.result[k].group_id = last.group_id
           /\ IsSelection(last.result, data.trusts,
                          {i \in DOMAIN data.trusts : data.trusts[i].group_id = last.group_id})

\* the queried group has the first and the third of three edges, another group the second
C6_Witness ==
    /\ last.op = "get_group_trusts"
    /\ Len(data.trusts) = 3
    /\ data.trusts[2].group_id # last.group_id
    /\ Len(last.result) = 2

\* C7: get_user_trusts(u) returns exactly the edges whose truster_id is u, from all
\* groups, in insertion order; an edge where u is only the trustee is not returned.
C7_UserProjection ==
    (last.op = "get_user_trusts" /\ last.exc = "none")
        => /\ \A k \in DOMAIN last.result : last.result[k].truster_id = last.user_id
           /\ IsSelection(last.result, data.trusts,
                          {i \in DOMAIN data.trusts : data.trusts[i].truster_id = last.user_id})

\* the user trusts in two groups, and is only the trustee of a third edge that is left out
C7_Witness ==
    /\ last.op = "get_user_trusts"
    /\ Len(last.result) = 2
    /\ last.result[1].group_id # last.result[2].group_id
    /\ \E i \in DOMAIN data.trusts :
           /\ data.trusts[i].trustee_id = last.user_id
           /\ data.trusts[i].truster_id # last.user_id

----------------------------------------------------------------------------
(* Properties of the backing file, checked under SpecFile *)

\* reading the file gives a ledger equal to the one in memory
FileHoldsMemory ==
    /\ file.state = "json"
    /\ LedgerEq(JsonLoad(file.doc), data)

Unparseable(f) == f.state \in {"corrupt", "partial"}

SaveFailed(call) == call.io \in {"open_error", "write_error"}

\* C4: when no save of a store instance has failed, a fresh TrustStorage on the same path
\* loads a ledger equal to the in-memory ledger of that instance: same groups mapping,
\* same trusts in the same order.
C4_RoundTrip ==
    [][(last'.op = "open" /\ started /\ ~unsaved)
          => /\ LedgerEq(data', data)
             /\ data'.trusts = data.trusts
             /\ KeysOf(data'.groups) = KeysOf(data.groups)]_vars

\* a fresh instance has loaded the group with a negative id and the trusts that an
\* earlier instance saved
C4_Witness ==
    /\ last.op = "open"
    /\ Len(data.trusts) = 2
    /\ \E i \in DOMAIN data.groups : data.groups[i].key = DecimalKey(-1)

\* C5 as stated: whenever add_group, or add_trust on a new key, has returned, the file
\* holds the in-memory ledger.
C5_Original ==
    [][(last'.op \in {"add_group", "add_trust"} /\ last'.exc = "none" /\ data' # data)
          => FileHoldsMemory']_vars

\* C5 amended: whenever add_group, or add_trust on a new key, has returned and its save
\* did not fail, the file holds the in-memory ledger.
C5_SavedUnlessFailed ==
    [][(/\ last'.op \in {"add_group", "add_trust"}
        /\ last'.exc = "none"
        /\ data' # data
        /\ ~SaveFailed(last'))
          => FileHoldsMemory']_vars

\* an add_trust on a new key has returned with its save done, on top of an earlier edge
C5_Witness ==
    /\ last.op = "add_trust"
    /\ last.io = "ok"
    /\ Len(data.trusts) = 2
    /\ data.trusts[2].created_at = last.now
    /\ FileHoldsMemory

\* C8 as stated: whatever the backing file holds, the constructed store has a groups
\* mapping and a trusts sequence, and no following call raises.
C8_AlwaysUsable ==
    started => /\ data.kind = "dict"
               /\ data.hasGroups
               /\ data.hasTrusts
               /\ last.exc = "none"

\* C9: opening on a file that fails to parse gives the empty ledger and leaves the file
\* as it is; the file keeps its content through every call that does not save, and a
\* save that succeeds replaces it entirely by the in-memory ledger (a save that fails
\* leaves it unparseable).
C9_LoadFailureRecovery ==
    [][Unparseable(file) =>
          /\ (last'.op = "open" /\ last' # last)
                => /\ data' = [kind |-> "dict", hasGroups |-> TRUE, hasTrusts |-> TRUE,
                               groups |-> <<>>, trusts |-> <<>>]
                   /\ file' = file
          /\ (clock' = clock \/ data' = data) => file' = file
          /\ (clock' # clock /\ data' # data /\ ~SaveFailed(last'))
                => /\ file'.state = "json"
                   /\ file'.doc.trusts = data'.trusts
                   /\ FileHoldsMemory'
          /\ (clock' # clock /\ data' # data /\ SaveFailed(last'))
                => Unparseable(file')]_vars

\* the store was opened on an unparseable file and a mutating call has replaced the file
\* by the ledger
C9_Witness ==
    /\ last.op \in {"add_group", "add_trust"}
    /\ last.found = "corrupt"
    /\ last.io = "ok"
    /\ FileHoldsMemory

\* the record of the call is in the ledger
RecordedIn(d, call) ==
    IF call.op = "add_group"
    THEN \E i \in DOMAIN d.groups :
            /\ d.groups[i].key = DecimalKey(call.group_id)
            /\ d.groups[i].value.added_at = call.now
    ELSE /\ d.trusts # <<>>
         /\ d.trusts[Len(d.trusts)].created_at = call.now
         /\ CalledKeyAt(d.trusts, call) = {Len(d.trusts)}

\* C10: when the save of add_group or add_trust fails, the call returns normally, the
\* in-memory ledger has the new record and the file is left behind it (untouched or
\* truncated); the next save that succeeds makes the file equal to the complete
\* in-memory ledger, the records whose own save failed included.
C10_SaveFailure ==
    [][/\ (clock' # clock /\ SaveFailed(last'))
             => /\ last'.exc = "none"
                /\ RecordedIn(data', last')
                /\ file' = file \/ file'.state = "partial"
                /\ ~FileHoldsMemory'
       /\ (clock' # clock /\ last'.io = "ok")
             => /\ FileHoldsMemory'
                /\ RecordedIn(data', last')
                /\ \A i \in DOMAIN data.trusts : data'.trusts[i] = data.trusts[i]
                /\ KeysOf(data.groups) \subseteq KeysOf(data'.groups)]_vars

\* a save has succeeded after an earlier save had failed, and the file holds both records
C10_Witness ==
    /\ last.io = "ok"
    /\ last.behind
    /\ Len(data.trusts) + Len(data.groups) >= 2
    /\ FileHoldsMemory

----------------------------------------------------------------------------
(* Further properties of the store *)

\* C11: constructing the store where no file exists gives exactly the ledger with an
\* empty groups mapping and an empty trusts sequence, and creates no file.
C11_InitEmpty ==
    [][(last'.op = "open" /\ file.state = "absent")
          => /\ data' = [kind |-> "dict", hasGroups |-> TRUE, hasTrusts |-> TRUE,
                         groups |-> <<>>, trusts |-> <<>>]
             /\ file'.state = "absent"
             /\ file' = file]_vars

\* a store has just been constructed where no file exists
C11_Witness ==
    /\ started
    /\ last.op = "open"
    /\ last.found = "absent"
    /\ file.state = "absent"
    /\ data.groups = <<>>
    /\ data.trusts = <<>>

\* C13: within the life of one store, trusts before a call is a prefix of trusts after
\* it: no edge is removed, moved or changed, and only add_trust extends the sequence, by
\* one edge at the end.
C13_AppendOnly ==
    [][/\ Len(data'.trusts) \in {Len(data.trusts), Len(data.trusts) + 1}
       /\ \A i \in DOMAIN data.trusts : data'.trusts[i] = data.trusts[i]
       /\ Len(data'.trusts) = Len(data.trusts) + 1
             => /\ last'.op = "add_trust"
                /\ data'.trusts[Len(data'.trusts)].created_at = last'.now]_vars

\* a third edge has been appended behind two recorded ones
C13_Witness ==
    /\ last.op = "add_trust"
    /\ Len(data.trusts) = 3
    /\ data.trusts[3].created_at = last.now
    /\ data.trusts[1].created_at < data.trusts[2].created_at

\* the keys of the edges of a trusts sequence
KeysIn(trusts) ==
    {<<trusts[i].group_id, trusts[i].truster_id, trusts[i].trustee_id>> : i \in DOMAIN trusts}

\* C14: an add_trust call on a key not yet in trusts calls _save_data once, which on
\* success leaves the file holding the full ledger; a call on a key already in trusts
\* calls it not at all and leaves the file exactly as it was, also when the file is
\* behind the in-memory ledger.
C14_WriteAccounting ==
    [][(last'.op = "add_trust" /\ clock' # clock /\ last'.exc = "none")
          => IF <<last'.group_id, last'.truster_id, last'.trustee_id>> \in KeysIn(data.trusts)
             THEN /\ last'.io = "none"
                  /\ file' = file
             ELSE /\ last'.io \in {"ok", "open_error", "write_error"}
                  /\ last'.io = "ok"
                        => /\ file'.state = "json"
                           /\ file'.doc.trusts = data'.trusts
                           /\ Len(file'.doc.groups) = Len(data'.groups)
                           /\ FileHoldsMemory']_vars

\* a call has repeated a recorded key while the file was behind the ledger, and the
\* file is still behind
C14_Witness ==
    /\ last.op = "add_trust"
    /\ last.io = "none"
    /\ last.exc = "none"
    /\ last.behind
    /\ \E i \in CalledKeyAt(data.trusts, last) : data.trusts[i].created_at < last.now
    /\ ~FileHoldsMemory

\* C15: get_group_trusts and get_user_trusts raise nothing and leave the in-memory
\* groups, the in-memory trusts and the backing file unchanged, for any argument; for
\* an id no edge has they return the empty sequence.
C15_QueriesReadOnly ==
    [][(last'.op \in {"get_group_trusts", "get_user_trusts"})
          => /\ data'.groups = data.groups
             /\ data'.trusts = data.trusts
             /\ file' = file
             /\ last'.exc = "none"
             /\ (last'.op = "get_group_trusts"
                   /\ \A i \in DOMAIN data.trusts : data.trusts[i].group_id # last'.group_id)
                   => last'.result = <<>>
             /\ (last'.op = "get_user_trusts"
                   /\ \A i \in DOMAIN data.trusts : data.trusts[i].truster_id # last'.user_id)
                   => last'.result = <<>>]_vars

\* a group that is not registered and has no edge was queried on a ledger that has
\* a group and edges
C15_Witness ==
    /\ last.op = "get_group_trusts"
    /\ last.result = <<>>
    /\ DecimalKey(last.group_id) \notin KeysOf(data.groups)
    /\ data.groups # <<>>
    /\ Len(data.trusts) = 2
    /\ file.state = "json"

\* C18: natural keys stay unique in memory and in the file through any sequence of
\* add_trust calls and constructions of the store, and an add_trust call on a key that
\* the file holds is a no-op: a store constructed on the file has the edge, with its
\* integer group_id, and finds it.
C18_DedupAcrossRestart ==
    /\ [](/\ Cardinality(KeysIn(data.trusts)) = Len(data.trusts)
          /\ file.state = "json"
                => Cardinality(KeysIn(file.doc.trusts)) = Len(file.doc.trusts))
    /\ [][(/\ last'.op = "add_trust"
           /\ clock' # clock
           /\ last'.exc = "none"
           /\ file.state = "json"
           /\ <<last'.group_id, last'.truster_id, last'.trustee_id>>
                  \in KeysIn(file.doc.trusts))
             => /\ data' = data
                /\ file' = file]_vars

\* an edge recorded before the store in use was constructed has been found by an
\* add_trust call on its key
C18_Witness ==
    /\ last.op = "add_trust"
    /\ last.exc = "none"
    /\ last.io = "none"
    /\ last.opened_at <= last.now
    /\ Len(data.trusts) = 1
    /\ \E i \in CalledKeyAt(data.trusts, last) :
           /\ data.trusts[i].created_at < last.opened_at
           /\ data.trusts[i].group_id < 0

----------------------------------------------------------------------------
(* The chat adapter: the handlers that call the store.  SpecAdapter starts *)
(* from the empty ledger and takes only updates of the chat platform.  A   *)
(* handler that reaches add_group or add_trust leaves that call in last;   *)
(* a handler that returns before leaves its own name and its reply.        *)

ChatTypes == {"private", "group", "supergroup"}
MemberStatuses == {"member", "administrator", "left"}
\* the creator among the administrators of a chat; 0 when the list has none
Creators == UserIds \cup {0}
\* the outcome of chat.get_administrators() and chat.get_member_count()
ApiOutcomes == {"ok", "administrators_error", "member_count_error"}

\* chat.title and user.full_name, as the platform reports them
Title(chat_id) == IF chat_id < 0 THEN "G" ELSE "H"
FullName(user_id) == IF user_id = 1 THEN "A" ELSE "B"

\* what a handler leaves in last when it returns without a call of the store
Handled(op, chat_id, user_id, exc, reply) ==
    /\ last' = [NoCall EXCEPT !.op = op, !.opened_at = last.opened_at,
                   !.group_id = chat_id, !.user_id = user_id, !.exc = exc, !.reply = reply]
    /\ UNCHANGED <<data, file, clock, started, unsaved>>

\* scan_command
ScanCommand(chat_type, chat_id, creator, api) ==
    /\ started
    /\ IF chat_type = "private"
       THEN Handled("scan", chat_id, 0, "none", "only_in_groups")
       ELSE IF api = "administrators_error"
       THEN Handled("scan", chat_id, 0, "none", "error")
       ELSE IF creator = 0
       THEN Handled("scan", chat_id, 0, "none", "no_owner")
       ELSE IF api = "member_count_error"
       THEN Handled("scan", chat_id, 0, "none", "error")
       ELSE IF Subscript(data, data.hasGroups) # "none"
       THEN Handled("scan", chat_id, 0, "none", "error")
       ELSE AddGroup(chat_id, Title(chat_id), creator, FullName(creator), "ok")

\* track_message looking at any registered group in the place of the group of the chat
TrackMessageAnyGroup(chat_type, chat_id, user_id) ==
    /\ started
    /\ IF chat_type \notin {"group", "supergroup"}
       THEN Handled("track_message", chat_id, user_id, "none", "ignored")
       ELSE IF Subscript(data, data.hasGroups) # "none"
       THEN Handled("track_message", chat_id, user_id, Subscript(data, data.hasGroups), "none")
       ELSE IF data.groups = <<>>
       THEN Handled("track_message", chat_id, user_id, "none", "not_registered")
       ELSE LET group_info == data.groups[1].value
            IN IF user_id # group_info.owner_id
               THEN AddTrust(chat_id, group_info.owner_id, group_info.owner_name,
                             user_id, FullName(user_id), "ok")
               ELSE Handled("track_message", chat_id, user_id, "none", "owner")

\* track_message without the comparison of the sender with the owner
TrackMessageNoOwnerCheck(chat_type, chat_id, user_id) ==
    /\ started
    /\ IF chat_type \notin {"group", "supergroup"}
       THEN Handled("track_message", chat_id, user_id, "none", "ignored")
       ELSE IF Subscript(data, data.hasGroups) # "none"
       THEN Handled("track_message", chat_id, user_id, Subscript(data, data.hasGroups), "none")
       ELSE IF ~DictHas(data.groups, GroupKey(chat_id))
       THEN Handled("track_message", chat_id, user_id, "none", "not_registered")
       ELSE LET group_info == DictGet(data.groups, GroupKey(chat_id))
            IN AddTrust(chat_id, group_info.owner_id, group_info.owner_name,
                        user_id, FullName(user_id), "ok")

\* track_message
TrackMessage(chat_type, chat_id, user_id) ==
    /\ started
    /\ IF chat_type \notin {"group", "supergroup"}
       THEN Handled("track_message", chat_id, user_id, "none", "ignored")
       ELSE IF Subscript(data, data.hasGroups) # "none"
       THEN Handled("track_message", chat_id, user_id, Subscript(data, data.hasGroups), "none")
       ELSE IF ~DictHas(data.groups, GroupKey(chat_id))
       THEN Handled("track_message", chat_id, user_id, "none", "not_registered")
       ELSE LET group_info == DictGet(data.groups, GroupKey(chat_id))
            IN IF user_id # group_info.owner_id
               THEN AddTrust(chat_id, group_info.owner_id, group_info.owner_name,
                             user_id, FullName(user_id), "ok")
               ELSE Handled("track_message", chat_id, user_id, "none", "owner")

\* chat_member_updated recording the trust of the new member in the owner
ChatMemberUpdatedReversed(chat_type, chat_id, user_id, status) ==
    /\ started
    /\ IF chat_type \notin {"group", "supergroup"}
       THEN Handled("chat_member_updated", chat_id, user_id, "none", "ignored")
       ELSE IF Subscript(data, data.hasGroups) # "none"
       THEN Handled("chat_member_updated", chat_id, user_id,
                    Subscript(data, data.hasGroups), "none")
       ELSE IF ~DictHas(data.groups, GroupKey(chat_id))
       THEN Handled("chat_member_updated", chat_id, user_id, "none", "not_registered")
       ELSE LET group_info == DictGet(data.groups, GroupKey(chat_id))
            IN IF user_id # group_info.owner_id /\ status \in {"member", "administrator"}
               THEN AddTrust(chat_id, user_id, FullName(user_id),
                             group_info.owner_id, group_info.owner_name, "ok")
               ELSE Handled("chat_member_updated", chat_id, user_id, "none", "no_trust")

\* chat_member_updated
ChatMemberUpdated(chat_type, chat_id, user_id, status) ==
    /\ started
    /\ IF chat_type \notin {"group", "supergroup"}
       THEN Handled("chat_member_updated", chat_id, user_id, "none", "ignored")
       ELSE IF Subscript(data, data.hasGroups) # "none"
       THEN Handled("chat_member_updated", chat_id, user_id,
                    Subscript(data, data.hasGroups), "none")
       ELSE IF ~DictHas(data.groups, GroupKey(chat_id))
       THEN Handled("chat_member_updated", chat_id, user_id, "none", "not_registered")
       ELSE LET group_info == DictGet(data.groups, GroupKey(chat_id))
            IN IF user_id # group_info.owner_id /\ status \in {"member", "administrator"}
               THEN AddTrust(chat_id, group_info.owner_id, group_info.owner_name,
                             user_id, FullName(user_id), "ok")
               ELSE Handled("chat_member_updated", chat_id, user_id, "none", "no_trust")

\* what status_command leaves in last: the reply and the trusts it lists
StatusReply(chat_id, exc, reply, trusts) ==
    /\ last' = [NoCall EXCEPT !.op = "status", !.opened_at = last.opened_at,
                   !.group_id = chat_id, !.exc = exc, !.reply = reply, !.result = trusts]
    /\ UNCHANGED <<data, file, clock, started, unsaved>>

\* status_command taking a group without trusts for one that is not registered
StatusCommandByTrusts(chat_type, chat_id) ==
    /\ started
    /\ IF chat_type = "private"
       THEN StatusReply(chat_id, "none", "only_in_groups", <<>>)
       ELSE IF Subscript(data, data.hasTrusts) # "none"
       THEN StatusReply(chat_id, Subscript(data, data.hasTrusts), "none", <<>>)
       ELSE LET trusts == Comprehension(data.trusts, "group_id", chat_id)
            IN IF trusts = <<>>
               THEN StatusReply(chat_id, "none", "not_registered", <<>>)
               ELSE StatusReply(chat_id, "none", "trust_list", trusts)

\* status_command
StatusCommand(chat_type, chat_id) ==
    /\ started
    /\ IF chat_type = "private"
       THEN StatusReply(chat_id, "none", "only_in_groups", <<>>)
       ELSE IF Subscript(data, data.hasGroups) # "none"
       THEN StatusReply(chat_id, Subscript(data, data.hasGroups), "none", <<>>)
       ELSE IF ~DictHas(data.groups, GroupKey(chat_id))
       THEN StatusReply(chat_id, "none", "not_registered", <<>>)
       ELSE IF Subscript(data, data.hasTrusts) # "none"
       THEN StatusReply(chat_id, Subscript(data, data.hasTrusts), "none", <<>>)
       ELSE LET trusts == Comprehension(data.trusts, "group_id", chat_id)
            IN IF trusts # <<>>
               THEN StatusReply(chat_id, "none", "trust_list", trusts)
               ELSE StatusReply(chat_id, "none", "no_trusts", trusts)

UpdateScan ==
    \E t \in ChatTypes, g \in GroupIds, c \in Creators, api \in ApiOutcomes :
        ScanCommand(t, g, c, api)

UpdateMessage ==
    \E t \in ChatTypes, g \in GroupIds, u \in UserIds : TrackMessage(t, g, u)

UpdateChatMember ==
    \E t \in ChatTypes, g \in GroupIds, u \in UserIds, st \in MemberStatuses :
        ChatMemberUpdated(t, g, u, st)

UpdateStatus ==
    \E t \in ChatTypes, g \in GroupIds : StatusCommand(t, g)

NextAdapter ==
    \/ UpdateScan
    \/ UpdateMessage
    \/ UpdateChatMember
    \/ UpdateStatus

SpecAdapter == Init /\ [][NextAdapter]_vars

----------------------------------------------------------------------------
(* Properties of the adapter, checked under SpecAdapter *)

Registered(g) == DecimalKey(g) \in KeysOf(data.groups)

EdgesOf(g) == {i \in DOMAIN data.trusts : data.trusts[i].group_id = g}

\* C12: a group id is in groups exactly when add_group was called for it before (groups
\* starts empty, a key enters only by the add_group call for its id and never leaves,
\* and a change of trusts changes no key), and status_command answers "not registered"
\* exactly for an absent id and a status with zero relationships for a registered id
\* without edges.
C12_RegisteredOrNot ==
    /\ data.groups = <<>>
    /\ [](( /\ last.op = "status"
            /\ last.exc = "none"
            /\ last.reply # "only_in_groups")
              => /\ last.reply = "not_registered" <=> ~Registered(last.group_id)
                 /\ last.reply = "no_trusts"
                       <=> (Registered(last.group_id) /\ EdgesOf(last.group_id) = {})
                 /\ last.reply = "trust_list"
                       <=> (Registered(last.group_id) /\ EdgesOf(last.group_id) # {}))
    /\ [][/\ KeysOf(data.groups) \subseteq KeysOf(data'.groups)
          /\ KeysOf(data'.groups) # KeysOf(data.groups)
                => /\ last'.op = "add_group"
                   /\ KeysOf(data'.groups) =
                          KeysOf(data.groups) \cup {DecimalKey(last'.group_id)}
          /\ (last'.op = "add_group" /\ clock' # clock /\ last'.exc = "none")
                => DecimalKey(last'.group_id) \in KeysOf(data'.groups)
          /\ data'.trusts # data.trusts => KeysOf(data'.groups) = KeysOf(data.groups)]_vars

\* status was asked for a registered group without edges while another group has edges
C12_Witness ==
    /\ last.op = "status"
    /\ last.reply = "no_trusts"
    /\ Registered(last.group_id)
    /\ EdgesOf(last.group_id) = {}
    /\ data.trusts # <<>>

\* C16: no edge recorded through scan_command, track_message and chat_member_updated
\* has its truster as its trustee.
C16_NoSelfTrust ==
    \A i \in DOMAIN data.trusts : data.trusts[i].truster_id # data.trusts[i].trustee_id

\* the owner of a registered group that has an edge has sent a message to it
C16_Witness ==
    /\ last.op = "track_message"
    /\ last.reply = "owner"
    /\ Registered(last.group_id)
    /\ ValueAt(data.groups, DecimalKey(last.group_id)).owner_id = last.user_id
    /\ EdgesOf(last.group_id) # {}

AdapterEvents == {"track_message", "chat_member_updated"}

\* C19: a message or a member update for a chat whose id is not in groups changes
\* neither the ledger nor the file, add_trust is reached only for a registered group,
\* and so every edge has the id of a registered group.
C19_OnlyRegisteredGroups ==
    /\ [](\A i \in DOMAIN data.trusts :
             DecimalKey(data.trusts[i].group_id) \in KeysOf(data.groups))
    /\ [][/\ (last'.op \in AdapterEvents
                /\ DecimalKey(last'.group_id) \notin KeysOf(data.groups))
                => /\ data' = data
                   /\ file' = file
          /\ (last'.op = "add_trust" /\ clock' # clock)
                => DecimalKey(last'.group_id) \in KeysOf(data.groups)]_vars

\* a member update came for a chat that is not registered while another group is
\* registered and has an edge
C19_Witness ==
    /\ last.op = "chat_member_updated"
    /\ ~Registered(last.group_id)
    /\ data.groups # <<>>
    /\ data.trusts # <<>>

----------------------------------------------------------------------------
(* SpecCrash: SpecFile, and the process may die inside a mutating call.    *)
(* _save_data opens the backing file itself with mode 'w', which truncates *)
(* it, and json.dump writes it piece by piece: a process that dies before  *)
(* the open leaves the file as it was, one that dies between the open and  *)
(* the end of the dump leaves it empty or cut short, one that dies after   *)
(* the dump leaves it rewritten.  The memory of the process is gone; the   *)
(* call leaves in last the trusts the file held before.                    *)

CrashPoints == {"before_open", "during_write", "after_write"}

\* _save_data writing a temporary file and renaming it over the backing file
WriteInterruptedAtomic(f) == f

\* the backing file when the process dies between open(..., 'w') and the end of json.dump
WriteInterrupted(f) == FilePartial

Crashed(op, group_id, point, written) ==
    /\ clock' = clock + 1
    /\ file' = CASE point = "before_open" -> file
                 [] point = "during_write" -> WriteInterrupted(file)
                 [] point = "after_write" -> FileJson(JsonDump(written))
    /\ data' = EmptyLedger
    /\ started' = FALSE
    /\ unsaved' = FALSE
    /\ last' = [NoCall EXCEPT !.op = op, !.group_id = group_id, !.now = clock,
                   !.io = point, !.found = file.state, !.behind = unsaved,
                   !.result = IF file.state = "json" THEN file.doc.trusts ELSE <<>>]

\* add_group, the process dying in its _save_data
CrashInAddGroup(group_id, group_name, owner_id, owner_name, point) ==
    /\ started
    /\ clock < MaxClock
    /\ Subscript(data, data.hasGroups) = "none"
    /\ Crashed("crash_add_group", group_id, point,
               [data EXCEPT !.groups =
                   DictSet(@, GroupKey(group_id),
                           GroupRecord(group_name, owner_id, owner_name, clock))])

\* add_trust on a new key, the process dying in its _save_data
CrashInAddTrust(group_id, truster_id, truster_name, trustee_id, trustee_name, point) ==
    /\ started
    /\ clock < MaxClock
    /\ Subscript(data, data.hasTrusts) = "none"
    /\ ~TrustExists(data.trusts, group_id, truster_id, trustee_id)
    /\ Crashed("crash_add_trust", group_id, point,
               [data EXCEPT !.trusts =
                   Append(@, TrustRecord(group_id, truster_id, truster_name,
                                         trustee_id, trustee_name, clock))])

CrashAddGroup ==
    \E g \in GroupIds, point \in CrashPoints : CrashInAddGroup(g, "G", 1, "A", point)

CrashAddTrust ==
    \E g \in GroupIds, b \in UserIds, point \in CrashPoints :
        CrashInAddTrust(g, 1, "A", b, "B", point)

NextCrash ==
    \/ Open
    \/ FileAddGroup
    \/ FileAddTrust
    \/ CallGetGroupTrusts
    \/ CallGetUserTrusts
    \/ CrashAddGroup
    \/ CrashAddTrust

SpecCrash == InitFile /\ [][NextCrash]_vars

Crashes == {"crash_add_group", "crash_add_trust"}

\* C20: a process that dies during the save of a mutating call leaves the backing file
\* cut short, whatever earlier saves had put there, and the store constructed next on
\* that file fails to parse it and starts from the empty ledger.
C20_PartialWriteOnCrash ==
    [][/\ (last'.op \in Crashes /\ clock' # clock /\ last'.io = "during_write")
             => /\ file'.state \in {"corrupt", "partial"}
                /\ file' # file \/ file.state = "partial"
       /\ (last.op \in Crashes /\ last.io = "during_write" /\ last'.op = "open")
             => /\ data'.groups = <<>>
                /\ data'.trusts = <<>>
                /\ data'.hasGroups /\ data'.hasTrusts]_vars

\* the process has died during a save on a file that held a group and two edges, and the
\* file no longer gives them to the next store
C20_Witness ==
    /\ last.op \in Crashes
    /\ last.io = "during_write"
    /\ last.found = "json"
    /\ Len(last.result) = 2
    /\ ~started
    /\ file.state = "partial"
    /\ LoadData(file).trusts = <<>>

====
